---- MODULE Spec2Model ----
(***************************************************************************)
(* A model of src/imea_extractor.py: IMEADirectExtractor's batched         *)
(* parallel extraction of the historical series (extract,                  *)
(* extract_historical_series and its nested generate_monthly_ranges and    *)
(* make_request), the deduplication and transformation of the collected    *)
(* records, the percentage summary, the separated files and run().         *)
(*                                                                         *)
(* The specifications share the variables:                                 *)
(*   SpecRanges    the date partitioner and the request planner, applied   *)
(*                 to (start_dt, end_dt) drawn from a bounded calendar;    *)
(*   SpecDedup     the sort_values / drop_duplicates step, applied to      *)
(*                 bounded record sequences;                               *)
(*   SpecShape     create_percentage_summary and save_separated_files,     *)
(*                 applied to bounded frames of observations;              *)
(*   Spec          one run of run(): authentication, the season request,   *)
(*                 the batch loop with its worker pool, deduplication,     *)
(*                 transformation, summary, the result of extract() and    *)
(*                 the saving of the summary;                              *)
(*   SpecFair      Spec with the fairness of its threads and requests;     *)
(*   SpecUndated   Spec with a provider whose records may hold no date;    *)
(*   SpecPipeline  the run from the end of the batch loop on, for          *)
(*                 collected records that lack keys.                       *)
(***************************************************************************)
EXTENDS Integers, Sequences, FiniteSets, TLC

VARIABLES
    pc,             \* position of the run / of the pure-function harness
    start_dt,       \* extract_historical_series: start_dt (a date)
    end_dt,         \* extract_historical_series: end_dt (a date)
    monthly_ranges, \* extract_historical_series: monthly_ranges
    all_requests,   \* extract_historical_series: all_requests
    all_data,       \* extract_historical_series: all_data (the collected records)
    df,             \* extract_historical_series: df after sort_values/drop_duplicates
    df_again,       \* the deduplication step applied to df once more
    access_token,   \* self.access_token ("" for None)
    season_ids,     \* extract_historical_series: season_ids
    http,           \* the requests sent so far, per endpoint
    max_workers,    \* extract_historical_series: max_workers
    batch_size,     \* extract_historical_series: batch_size
    batch_start,    \* the batch loop's batch_start
    future,         \* the state of each request's future in the executor
    response,       \* what the transport answered to each request
    result_of,      \* what make_request returned for each request
    batch_results,  \* the batch loop's batch_results
    batch_log,      \* the "Batch n completed" log lines (477-479)
    outcomes,       \* the requests whose result the as_completed loop has read
    run_log,        \* the run-level log lines (481, 487, 498, 759)
    results,        \* what extract() returns
    observations,   \* create_percentage_summary: its argument df
    summary,        \* create_percentage_summary: what it returns
    saved_files,    \* save_separated_files: the files written, in order
    run_outcome     \* run(): "" before it ends, then "returned" or the error raised

planVars == <<start_dt, end_dt, monthly_ranges, all_requests>>
dedupVars == <<all_data, df, df_again>>
poolVars == <<future, response, result_of>>
batchVars == <<batch_start, batch_results, batch_log, outcomes>>
runVars == <<access_token, season_ids, http, max_workers, batch_size,
             poolVars, batchVars, run_log, results>>

shapeVars == <<observations, summary, saved_files, run_outcome>>

vars == <<pc, planVars, dedupVars, runVars, shapeVars>>

(***************************************************************************)
(* Bounds of the model.                                                    *)
(***************************************************************************)
FirstYear == 2023   \* the calendar of the model starts on 1 January of it
MaxDay == 430       \* start_dt ranges over the first MaxDay+1 days
MaxSpan == 70       \* end_dt is at most MaxSpan days after start_dt
MaxBack == 3        \* end_dt is at most MaxBack days before start_dt
MaxObservations == 3 \* SpecShape: observations has up to MaxObservations rows
MaxRecords == 3     \* SpecDedup: at most MaxRecords collected records
\* The program sets max_workers = 15 and batch_size = 50; the runs of the
\* model take every pool size and batch size up to the two bounds below, on
\* worklists of up to four requests, so that runs of one and of several
\* batches, and pools smaller and larger than a batch, all occur.
MaxWorkersBound == 2 \* Spec: max_workers ranges over 1..MaxWorkersBound
MaxBatchBound == 2  \* Spec: batch_size ranges over 1..MaxBatchBound

(***************************************************************************)
(* Constants of the program.                                               *)
(***************************************************************************)
RecordLimit == 10   \* the provider's record limit (len(records) >= 10)
HttpOk == 200       \* response.status_code == 200

(***************************************************************************)
(* datetime: a date is [year, month, day] (the code's datetimes are        *)
(* compared and formatted by day; strptime('%Y-%m-%d') yields midnight).   *)
(***************************************************************************)
IsLeap(y) == (y % 4 = 0 /\ y % 100 /= 0) \/ (y % 400 = 0)

DaysInMonth(y, m) ==
    IF m = 2 THEN (IF IsLeap(y) THEN 29 ELSE 28)
    ELSE IF m \in {4, 6, 9, 11} THEN 30 ELSE 31

MkDate(y, m, d) == [year |-> y, month |-> m, day |-> d]

\* datetime.__le__ / __lt__
DateLT(a, b) ==
    \/ a.year < b.year
    \/ a.year = b.year /\ a.month < b.month
    \/ a.year = b.year /\ a.month = b.month /\ a.day < b.day

DateLE(a, b) == a = b \/ DateLT(a, b)

\* min(a, b) of Python: b only when b < a
DateMin(a, b) == IF DateLT(b, a) THEN b ELSE a

\* d + timedelta(days=1)
PlusOneDay(d) ==
    IF d.day < DaysInMonth(d.year, d.month) THEN MkDate(d.year, d.month, d.day + 1)
    ELSE IF d.month < 12 THEN MkDate(d.year, d.month + 1, 1)
    ELSE MkDate(d.year + 1, 1, 1)

\* d - timedelta(days=1)
MinusOneDay(d) ==
    IF d.day > 1 THEN MkDate(d.year, d.month, d.day - 1)
    ELSE IF d.month > 1 THEN MkDate(d.year, d.month - 1, DaysInMonth(d.year, d.month - 1))
    ELSE MkDate(d.year - 1, 12, 31)

\* date.toordinal(), counted from 1 January of FirstYear.
RECURSIVE DaysBeforeMonth(_, _)
DaysBeforeMonth(y, m) ==
    IF m = 1 THEN 0 ELSE DaysBeforeMonth(y, m - 1) + DaysInMonth(y, m - 1)

RECURSIVE DaysBeforeYear(_)
DaysBeforeYear(y) ==
    IF y <= FirstYear THEN 0
    ELSE DaysBeforeYear(y - 1) + (IF IsLeap(y - 1) THEN 366 ELSE 365)

Ordinal(d) == DaysBeforeYear(d.year) + DaysBeforeMonth(d.year, d.month) + (d.day - 1)

\* The dates of the model's calendar, and the date n days after its first.
CalendarDates ==
    { MkDate(y, m, d) : y \in FirstYear..(FirstYear + 2), m \in 1..12, d \in 1..31 }

ValidDates == { d \in CalendarDates : d.day <= DaysInMonth(d.year, d.month) }

DateAt == [n \in 0..(MaxDay + MaxSpan) |-> CHOOSE d \in ValidDates : Ordinal(d) = n]

(***************************************************************************)
(* generate_monthly_ranges (nested in extract_historical_series).          *)
(***************************************************************************)
\* start_dt.replace(day=1)
FirstOfMonth(d) == MkDate(d.year, d.month, 1)

\* next_month: relativedelta(months=1), or the manual month calculation; on
\* the first day of a month both give the first day of the next month.
NextMonth(current_month) ==
    IF current_month.month = 12
    THEN MkDate(current_month.year + 1, 1, current_month.day)
    ELSE MkDate(current_month.year, current_month.month + 1, current_month.day)

\* A plausible slip: the clip to the overall end date is forgotten.
ActualEndUnclipped(month_end, end) == month_end

\* actual_end = min(month_end, end_dt)
ActualEnd(month_end, end) == DateMin(month_end, end)

\* A plausible slip: the loop tests its condition after the body, so the
\* month of the start is emitted whatever the end.
RECURSIVE MonthlyLoopTestAfter(_, _, _)
MonthlyLoopTestAfter(current_month, end, ranges) ==
    LET next_month == NextMonth(current_month)
        month_end  == MinusOneDay(next_month)
        actual_end == ActualEnd(month_end, end)
        emitted    == Append(ranges, <<current_month, actual_end>>)
    IN  IF DateLE(next_month, end)
        THEN MonthlyLoopTestAfter(next_month, end, emitted)
        ELSE emitted

RECURSIVE MonthlyLoop(_, _, _)
MonthlyLoop(current_month, end, ranges) ==
    IF DateLE(current_month, end)
    THEN LET next_month == NextMonth(current_month)
             month_end  == MinusOneDay(next_month)
             actual_end == ActualEnd(month_end, end)
         IN  MonthlyLoop(next_month, end, Append(ranges, <<current_month, actual_end>>))
    ELSE ranges

generate_monthly_ranges(start, end) == MonthlyLoop(FirstOfMonth(start), end, <<>>)

(***************************************************************************)
(* self.indicators (IMEADirectExtractor.__init__), in the dict's order.    *)
(***************************************************************************)
Indicator(k, i, c, a) == [key |-> k, id |-> i, crop |-> c, activity |-> a]

indicators == <<
    Indicator("cotton_planting", "705576963633053696", "Cotton", "Planting"),
    Indicator("cotton_harvest", "703492383711166464", "Cotton", "Harvest"),
    Indicator("cotton_commercialization", "703126874901708800", "Cotton", "Commercialization"),
    Indicator("corn_planting", "701211800784076800", "Corn", "Planting"),
    Indicator("corn_harvest", "708192508847325187", "Corn", "Harvest"),
    Indicator("corn_commercialization", "698758563422273536", "Corn", "Commercialization"),
    Indicator("soy_planting", "708192508889268224", "Soy", "Planting"),
    Indicator("soy_harvest", "708192508847325188", "Soy", "Harvest"),
    Indicator("soy_commercialization", "702389895595556864", "Soy", "Commercialization") >>

(***************************************************************************)
(* The request planner: all_requests (extract_historical_series).          *)
(***************************************************************************)
\* strftime('%Y-%m-%d'): the string's three fields, in the string's order
StrfYmd(d) == <<d.year, d.month, d.day>>

\* strftime('%Y-%m'): the string's two fields, in the string's order
StrfYm(d) == <<d.year, d.month>>

\* request_info for one indicator and one range
RequestInfo(ind, range) ==
    [ indicator_key |-> ind.key,
      indicator_id  |-> ind.id,
      crop          |-> ind.crop,
      activity      |-> ind.activity,
      start_date    |-> StrfYmd(range[1]),
      end_date      |-> StrfYmd(range[2]),
      month_label   |-> StrfYm(range[1]),
      range_label   |-> <<StrfYmd(range[1]), StrfYmd(range[2])>> ]

\* for range_start, range_end in monthly_ranges[j..]: all_requests.append(...)
RECURSIVE PlanRangesFrom(_, _, _, _)
PlanRangesFrom(ind, ranges, j, acc) ==
    IF j > Len(ranges) THEN acc
    ELSE PlanRangesFrom(ind, ranges, j + 1, Append(acc, RequestInfo(ind, ranges[j])))

\* A plausible slip: the inner loop starts one range too late.
PlanRangesOffByOne(ind, ranges, acc) == PlanRangesFrom(ind, ranges, 2, acc)

\* the inner loop over monthly_ranges
PlanRanges(ind, ranges, acc) == PlanRangesFrom(ind, ranges, 1, acc)

\* for indicator_key, indicator_info in self.indicators.items(): ...
RECURSIVE PlanIndicatorsFrom(_, _, _, _)
PlanIndicatorsFrom(inds, ranges, i, acc) ==
    IF i > Len(inds) THEN acc
    ELSE PlanIndicatorsFrom(inds, ranges, i + 1, PlanRanges(inds[i], ranges, acc))

BuildRequests(inds, ranges) == PlanIndicatorsFrom(inds, ranges, 1, <<>>)

(***************************************************************************)
(* The state of the extractor after __init__, before extract() is called.  *)
(***************************************************************************)
NoResults == [success |-> FALSE, error |-> "not returned",
              percentage_summary |-> <<>>, detailed_data |-> <<>>]

NoBatchResults == [success |-> 0, failed |-> 0, total_records |-> 0, limit_hits |-> 0]

NoRunLog == [total_requests |-> -1, initial_count |-> -1, final_count |-> -1,
             summary_records |-> -1, detailed_records |-> -1]

ShapeIdle ==
    /\ observations = <<>>
    /\ summary = <<>>
    /\ saved_files = <<>>
    /\ run_outcome = ""

FetchIdle ==
    /\ access_token = ""
    /\ season_ids = <<>>
    /\ http = [token |-> 0, seasons |-> 0, series |-> 0]
    /\ max_workers = 1
    /\ batch_size = 1
    /\ batch_start = 0
    /\ future = <<>>
    /\ response = <<>>
    /\ result_of = <<>>
    /\ batch_results = NoBatchResults
    /\ batch_log = <<>>
    /\ outcomes = <<>>
    /\ run_log = NoRunLog
    /\ results = NoResults

RunIdle == ShapeIdle /\ FetchIdle

(***************************************************************************)
(* Frames.  A frame is the sequence of its rows, a row a record of its     *)
(* cells; a cell that is NaN (None, NaT) is left out of the row's record.  *)
(* A frame built from the provider's records has the columns some record   *)
(* holds; final_df, the frame _transform_historical_data builds, has all   *)
(* of its columns, whatever cells are NaN (its rows hold data_source).     *)
(***************************************************************************)
FinalColumns ==
    { "date", "year", "month", "crop", "activity", "percentage",
      "harvest_season", "state", "data_source" }

IsFinal(rows) ==
    rows /= <<>> /\ \A i \in 1..Len(rows) : "data_source" \in DOMAIN rows[i]

Columns(rows) ==
    IF IsFinal(rows) THEN FinalColumns
    ELSE UNION { DOMAIN rows[i] : i \in 1..Len(rows) }

\* The cell of a row as a tuple: <<>> when it is NaN.
Cell(row, col) == IF col \in DOMAIN row THEN <<row[col]>> ELSE <<>>

(***************************************************************************)
(* The deduplication of the collected records (extract_historical_series,  *)
(* lines 490-496).  A collected record is a provider record (Data, Valor,  *)
(* EstadoId, SafraDescricao, UnidadeDescricao) with the metadata that      *)
(* make_request adds (_crop, _activity, _indicator_key, _month).           *)
(***************************************************************************)
\* pd.to_datetime of the provider's date string: its fields become a date
ToDatetime(t) == MkDate(t[1], t[2], t[3])

\* df = pd.DataFrame(all_data); df['Data'] = pd.to_datetime(df['Data'])
RECURSIVE ToFrame(_)
ToFrame(data) ==
    IF data = <<>> THEN <<>>
    ELSE <<IF "Data" \in DOMAIN Head(data)
           THEN [Head(data) EXCEPT !.Data = ToDatetime(@)]
           ELSE Head(data)>> \o ToFrame(Tail(data))

\* The order of two strings (the keys of self.indicators, the crops, the
\* seasons): their ranks in the sorted list of the strings of the model.
StringsSorted == <<
    "2022/23", "2023/24", "Corn", "Cotton", "Hectares", "Mato Grosso",
    "Percentual", "Soy", "State 52", "Unknown",
    "corn_commercialization", "corn_harvest", "corn_planting",
    "cotton_commercialization", "cotton_harvest", "cotton_planting",
    "soy_commercialization", "soy_harvest", "soy_planting" >>

StrRankOf ==
    [ str \in { StringsSorted[n] : n \in 1..Len(StringsSorted) } |->
        CHOOSE n \in 1..Len(StringsSorted) : StringsSorted[n] = str ]

StrRank(str) == StrRankOf[str]

StrLT(a, b) == StrRank(a) < StrRank(b)

\* The order of two '%Y-%m' strings: by year, then by month.
LabelLT(a, b) == a[1] < b[1] \/ (a[1] = b[1] /\ a[2] < b[2])

\* The order of sort_values(['Data', '_indicator_key', '_month']); the rows
\* whose Data is NaT come last (na_position='last').
SortKeyLT(a, b) ==
    \/ "Data" \in DOMAIN a /\ "Data" \notin DOMAIN b
    \/ "Data" \in DOMAIN a /\ "Data" \in DOMAIN b /\ DateLT(a.Data, b.Data)
    \/ /\ Cell(a, "Data") = Cell(b, "Data")
       /\ \/ StrLT(a["_indicator_key"], b["_indicator_key"])
          \/ /\ a["_indicator_key"] = b["_indicator_key"]
             /\ LabelLT(a["_month"], b["_month"])

\* A plausible slip: an unstable sort, which puts a row before the rows of
\* an equal sort key.
InsertBeforeEqual(sorted, row) ==
    LET n == Cardinality({ i \in 1..Len(sorted) : SortKeyLT(sorted[i], row) })
    IN  SubSeq(sorted, 1, n) \o <<row>> \o SubSeq(sorted, n + 1, Len(sorted))

\* One step of the stable sort: row goes after the rows whose sort key is not
\* greater (sort_values on several columns is a stable lexsort).
InsertStable(sorted, row) ==
    LET n == Cardinality({ i \in 1..Len(sorted) : ~SortKeyLT(row, sorted[i]) })
    IN  SubSeq(sorted, 1, n) \o <<row>> \o SubSeq(sorted, n + 1, Len(sorted))

RECURSIVE SortFrom(_, _, _)
SortFrom(rows, i, sorted) ==
    IF i > Len(rows) THEN sorted
    ELSE SortFrom(rows, i + 1, InsertStable(sorted, rows[i]))

\* df.sort_values(['Data', '_indicator_key', '_month'])
SortValues(rows) == SortFrom(rows, 1, <<>>)

\* subset=['Data', '_indicator_key', 'Valor'] (two NaN cells count as equal)
DedupKey(row) == <<Cell(row, "Data"), row["_indicator_key"], Cell(row, "Valor")>>

RECURSIVE KeepRows(_, _, _)
KeepRows(rows, keep, i) ==
    IF i > Len(rows) THEN <<>>
    ELSE (IF i \in keep THEN <<rows[i]>> ELSE <<>>) \o KeepRows(rows, keep, i + 1)

\* A plausible slip: keep='first'.
DropDuplicatesKeepFirst(rows) ==
    KeepRows(rows,
             { i \in 1..Len(rows) :
                 \A j \in 1..(i - 1) : DedupKey(rows[j]) /= DedupKey(rows[i]) },
             1)

\* drop_duplicates(subset=[...], keep='last')
DropDuplicates(rows) ==
    KeepRows(rows,
             { i \in 1..Len(rows) :
                 \A j \in (i + 1)..Len(rows) : DedupKey(rows[j]) /= DedupKey(rows[i]) },
             1)

\* df.sort_values([...]).drop_duplicates(subset=[...], keep='last')
DedupStep(rows) == DropDuplicates(SortValues(rows))

(***************************************************************************)
(* SpecDedup: the deduplication step on bounded record sequences.          *)
(***************************************************************************)
Collected(data, valor, estado, key, crop, activity, month) ==
    [ Data |-> data, Valor |-> valor, EstadoId |-> estado,
      SafraDescricao |-> "2023/24", UnidadeDescricao |-> "Percentual",
      _crop |-> crop, _activity |-> activity,
      _indicator_key |-> key, _month |-> month ]

\* The collected records SpecDedup draws from: two dates, two values, two
\* window labels and two states for soy_planting, records of soy_harvest
\* for one date and state, and records of soy_planting of another season.
DedupRecords ==
    { Collected(d, v, e, "soy_planting", "Soy", "Planting", m) :
        d \in {<<2023, 1, 31>>, <<2023, 2, 1>>}, v \in {5, 40}, e \in {51, 52},
        m \in {<<2023, 1>>, <<2023, 2>>} }
    \cup
    { Collected(<<2023, 1, 31>>, v, 51, "soy_harvest", "Soy", "Harvest", m) :
        v \in {5, 40}, m \in {<<2023, 1>>, <<2023, 2>>} }
    \cup
    { [ Collected(<<2023, 1, 31>>, v, 51, "soy_planting", "Soy", "Planting",
                  <<2023, 1>>) EXCEPT !.SafraDescricao = "2022/23" ] :
        v \in {5, 40} }

InitDedup ==
    /\ pc = "collected"
    /\ \E n \in 0..MaxRecords : all_data \in [1..n -> DedupRecords]
    /\ df = <<>> /\ df_again = <<>>
    /\ start_dt = MkDate(FirstYear, 1, 1) /\ end_dt = MkDate(FirstYear, 1, 1)
    /\ monthly_ranges = <<>>
    /\ all_requests = <<>>
    /\ RunIdle

ApplyDedup ==
    /\ pc = "collected"
    /\ df' = DedupStep(ToFrame(all_data))
    /\ pc' = "deduped"
    /\ UNCHANGED shapeVars
    /\ UNCHANGED <<planVars, all_data, df_again, runVars>>

ApplyDedupAgain ==
    /\ pc = "deduped"
    /\ df_again' = DedupStep(df)
    /\ pc' = "deduped twice"
    /\ UNCHANGED shapeVars
    /\ UNCHANGED <<planVars, all_data, df, runVars>>

NextDedup == ApplyDedup \/ ApplyDedupAgain

SpecDedup == InitDedup /\ [][NextDedup]_vars

(***************************************************************************)
(* SpecRanges: the partitioner and the planner on bounded inputs.          *)
(***************************************************************************)
InitRanges ==
    /\ pc = "input"
    /\ \E s \in 0..MaxDay : \E k \in (0 - MaxBack)..MaxSpan :
          /\ s + k >= 0
          /\ start_dt = DateAt[s]
          /\ end_dt = DateAt[s + k]
    /\ monthly_ranges = <<>>
    /\ all_requests = <<>>
    /\ all_data = <<>> /\ df = <<>> /\ df_again = <<>>
    /\ RunIdle

ApplyRanges ==
    /\ pc = "input"
    /\ monthly_ranges' = generate_monthly_ranges(start_dt, end_dt)
    /\ pc' = "ranged"
    /\ UNCHANGED shapeVars
    /\ UNCHANGED <<start_dt, end_dt, all_requests, dedupVars, runVars>>

ApplyPlan ==
    /\ pc = "ranged"
    /\ all_requests' = BuildRequests(indicators, monthly_ranges)
    /\ pc' = "planned"
    /\ UNCHANGED shapeVars
    /\ UNCHANGED <<start_dt, end_dt, monthly_ranges, dedupVars, runVars>>

NextRanges == ApplyRanges \/ ApplyPlan

SpecRanges == InitRanges /\ [][NextRanges]_vars

(***************************************************************************)
(* The transport.  A response is what self.session.post gives make_request:*)
(* an exception (raised /= ""), or a status and a body; a body either      *)
(* fails to parse as JSON or is a bare list ("list"), an object with a     *)
(* 'data' list ("data") or anything else ("other"); the records of a body  *)
(* are JSON objects unless `objects` is FALSE, and hold the keys of the     *)
(* provider's record but the keys in `missing`.                            *)
(***************************************************************************)
Response(raised, status, parses, shape, objects, count, unit) ==
    [ raised |-> raised, status |-> status, parses |-> parses, shape |-> shape,
      objects |-> objects, count |-> count, unit |-> unit, missing |-> {} ]

NoResponse == Response("no response yet", 0, FALSE, "other", TRUE, 0, "")

Raised(e) == Response(e, 0, FALSE, "other", TRUE, 0, "")

Status(code) == Response("", code, TRUE, "other", TRUE, 0, "")

Body(shape, count, unit) == Response("", HttpOk, TRUE, shape, TRUE, count, unit)

\* A body whose records hold no date
Undated(shape, count, unit) == [ Body(shape, count, unit) EXCEPT !.missing = {"Data"} ]

\* A record without the keys missing
Without(record, missing) == [ c \in DOMAIN record \ missing |-> record[c] ]

\* The j-th record the provider returns for a request: a day of the
\* requested month, with a value, a state, a season and a unit.
ProviderRecord(request_info, j, unit) ==
    [ Data |-> <<request_info.start_date[1], request_info.start_date[2], j>>,
      Valor |-> 5 * j,
      EstadoId |-> IF j % 2 = 0 THEN 52 ELSE 51,
      SafraDescricao |-> "2023/24",
      UnidadeDescricao |-> unit ]

\* response.json() of a body that parses: its record list, by shape.
RecordsOf(request_info, resp) ==
    IF resp.shape \in {"list", "data"}
    THEN [ j \in 1..resp.count |->
             Without(ProviderRecord(request_info, j, resp.unit), resp.missing) ]
    ELSE <<>>

\* What the transport may answer to the n-th request of the worklist: every
\* request may time out or return one percentage record; the other answers
\* are spread over the requests.
Answers(n) ==
    { Raised("ReadTimeout"), Body("list", 1, "Percentual") }
    \cup
    CASE n % 4 = 1 -> { Status(500), Body("list", RecordLimit, "Percentual"),
                        Body("data", RecordLimit - 1, "Percentual") }
      [] n % 4 = 2 -> { Status(204), Body("data", RecordLimit + 1, "Percentual"),
                        Body("list", 0, "") }
      [] n % 4 = 3 -> { Response("", HttpOk, FALSE, "other", TRUE, 0, ""),
                        Body("other", 0, ""),
                        Body("list", 1, "Hectares") }
      [] OTHER     -> { Response("", HttpOk, TRUE, "list", FALSE, 1, ""),
                        Status(500) }

(***************************************************************************)
(* authenticate: what the token endpoint answers, and what it returns.     *)
(***************************************************************************)
\* token is "" when the answer's JSON holds no access_token.
TokenAnswer(raised, status, token) == [raised |-> raised, status |-> status, token |-> token]

TokenAnswers ==
    { TokenAnswer("", HttpOk, "tok"), TokenAnswer("", HttpOk, ""),
      TokenAnswer("", 401, ""), TokenAnswer("ConnectionError", 0, "") }

\* self.access_token after authenticate(): set only on a 200 answer
TokenAfter(old, answer) ==
    IF answer.raised = "" /\ answer.status = HttpOk THEN answer.token ELSE old

\* A plausible slip: every 200 answer counts as authenticated.
AuthenticateOn200(answer) == answer.raised = "" /\ answer.status = HttpOk

\* the value authenticate() returns
Authenticate(answer) ==
    answer.raised = "" /\ answer.status = HttpOk /\ answer.token /= ""

(***************************************************************************)
(* make_request (nested in extract_historical_series).                     *)
(***************************************************************************)
\* f"HTTP {response.status_code}"
HttpError(status) ==
    CASE status = 204 -> "HTTP 204"
      [] status = 500 -> "HTTP 500"
      [] OTHER -> "HTTP other"

Failure(error, request_info) ==
    [success |-> FALSE, error |-> error, request_info |-> request_info]

\* record['_crop'] = ... : the metadata added to each record
Tag(record, request_info) ==
    [ _crop |-> request_info.crop, _activity |-> request_info.activity,
      _indicator_key |-> request_info.indicator_key,
      _month |-> request_info.month_label ]
    @@ record

\* A plausible slip: every 2xx status is read as a success.
IsSuccessStatus2xx(status) == status >= 200 /\ status < 300

\* response.status_code == 200
IsSuccessStatus(status) == status = HttpOk

make_request(request_info, resp) ==
    IF resp.raised /= ""
    THEN Failure(resp.raised, request_info)                \* except Exception as e
    ELSE IF IsSuccessStatus(resp.status)
    THEN IF ~resp.parses
         THEN Failure("JSONDecodeError", request_info)     \* response.json() raises
         ELSE IF ~resp.objects /\ resp.count > 0
         THEN Failure("TypeError", request_info)           \* record['_crop'] = ... raises
         ELSE LET records == RecordsOf(request_info, resp)
                  tagged  == [ j \in 1..Len(records) |-> Tag(records[j], request_info) ]
              IN  [ success |-> TRUE, data |-> tagged,
                    crop |-> request_info.crop, activity |-> request_info.activity,
                    month |-> request_info.month_label,
                    record_count |-> Len(tagged) ]
    ELSE Failure(HttpError(resp.status), request_info)

(***************************************************************************)
(* _transform_historical_data (lines 627-680), on a frame with the columns *)
(* cols.                                                                   *)
(***************************************************************************)
\* self.states.get(str(x), {}).get('name', f'State {x}')
StateName(estado_id) == IF estado_id = 51 THEN "Mato Grosso" ELSE "State 52"

\* The columns lines 631-652 add to a row: date, year and month when there
\* is a Data column, percentage when there is a Valor column, crop,
\* activity, state and harvest_season.
Derived(row, cols) ==
    [ crop |-> row["_crop"], activity |-> row["_activity"],
      state |-> IF "EstadoId" \in cols THEN StateName(row.EstadoId)
                ELSE "Mato Grosso" ]
    @@ (IF "Data" \in DOMAIN row
        THEN [date |-> row.Data, year |-> row.Data.year, month |-> row.Data.month]
        ELSE <<>>)
    @@ (IF "Valor" \in DOMAIN row THEN [percentage |-> row.Valor] ELSE <<>>)
    @@ (IF "SafraDescricao" \notin cols THEN [harvest_season |-> "Unknown"]
        ELSE IF "SafraDescricao" \in DOMAIN row
        THEN [harvest_season |-> row.SafraDescricao]
        ELSE <<>>)

\* A row of final_df (lines 659-666): the eight columns and data_source
\* (extraction_date, the time of the run, is left out).
TransformRow(row, cols) ==
    LET derived == Derived(row, cols)
    IN  [ c \in DOMAIN derived |-> derived[c] ]
        @@ [data_source |-> "IMEA_API_INDICATORS"]

\* A plausible slip: the unit filter is left out.
KeepsEveryUnit(row) == TRUE

\* df[df['UnidadeDescricao'] == 'Percentual'] (a NaN unit is not equal)
IsPercentage(row) ==
    "UnidadeDescricao" \in DOMAIN row /\ row.UnidadeDescricao = "Percentual"

\* Lines 654-656: the filter, when the frame has the column.
RECURSIVE TransformFrom(_, _, _)
TransformFrom(rows, cols, i) ==
    IF i > Len(rows) THEN <<>>
    ELSE (IF "UnidadeDescricao" \in cols => IsPercentage(rows[i])
          THEN <<rows[i]>> ELSE <<>>)
         \o TransformFrom(rows, cols, i + 1)

\* final_df when the frame has the Data and Valor columns; without one of
\* them line 659 raises KeyError and the except clause returns df, the
\* filtered frame with the columns added so far (lines 678-680).
\* (cols and kept are computed once.)
transform_historical_data(rows) ==
    CHOOSE out \in UNION
        { { IF {"Data", "Valor"} \subseteq cols
            THEN [ i \in 1..Len(kept) |-> TransformRow(kept[i], cols) ]
            ELSE [ i \in 1..Len(kept) |-> kept[i] @@ Derived(kept[i], cols) ] :
              kept \in { TransformFrom(rows, cols, 1) } } :
          cols \in { Columns(rows) } } : TRUE

(***************************************************************************)
(* extract_historical_series after the batch loop (lines 484-505): the     *)
(* frame of the collected records, deduplicated when it has a Data column  *)
(* (drop_duplicates raises KeyError when it then has no Valor column, and  *)
(* nothing catches it), and transformed.  <<>> stands for None.            *)
(***************************************************************************)
Reconciled(raised, deduped, historical_df) ==
    [ raised |-> raised, df |-> deduped, historical_df |-> historical_df ]

Reconcile(data) ==
    IF data = <<>> THEN Reconciled("", <<>>, <<>>)
    ELSE IF "Data" \in Columns(data) /\ "Valor" \notin Columns(data)
    THEN Reconciled("KeyError: Valor", <<>>, <<>>)
    ELSE CHOOSE r \in
            { Reconciled("", deduped, transform_historical_data(deduped)) :
                deduped \in { IF "Data" \in Columns(data)
                              THEN DedupStep(ToFrame(data)) ELSE data } } : TRUE

(***************************************************************************)
(* create_percentage_summary: the pivot of the transformed rows.           *)
(***************************************************************************)
\* index=['date', 'year', 'month', 'crop', 'state', 'harvest_season']
PivotIndex == { "date", "year", "month", "crop", "state", "harvest_season" }

GroupKey(r) == <<r.date, r.year, r.month, r.crop, r.state, r.harvest_season>>

\* groupby(dropna=True) leaves out the rows with a NaN in a key column
HasGroupKey(r) == (PivotIndex \cup {"activity"}) \subseteq DOMAIN r

\* A plausible slip: the pivot keeps the groups whose values are all NaN.
HasValueOrNaN(r) == HasGroupKey(r)

\* The rows the pivot aggregates: aggfunc='mean' skips the NaN values, and
\* pivot_table (dropna=True) drops the groups left without any value.
HasValue(r) == HasGroupKey(r) /\ "percentage" \in DOMAIN r

RECURSIVE Gcd(_, _)
Gcd(a, b) == IF b = 0 THEN a ELSE Gcd(b, a % b)

\* A percentage of the summary: a fraction in lowest terms (0.0 is 0/1).
Fraction(num, den) ==
    LET g == Gcd(num, den) IN [num |-> num \div g, den |-> den \div g]

Zero == Fraction(0, 1)

RECURSIVE SumPercentage(_, _)
SumPercentage(rows, idx) ==
    IF idx = {} THEN 0
    ELSE LET i == CHOOSE i \in idx : TRUE
         IN  rows[i].percentage + SumPercentage(rows, idx \ {i})

\* aggfunc='mean' over the values of a group and an activity; fillna(0.0)
MeanOrZero(rows, key, activity) ==
    LET idx == { i \in 1..Len(rows) :
                    /\ HasGroupKey(rows[i]) /\ "percentage" \in DOMAIN rows[i]
                    /\ GroupKey(rows[i]) = key /\ rows[i].activity = activity }
    IN  IF idx = {} THEN Zero
        ELSE Fraction(SumPercentage(rows, idx), Cardinality(idx))

\* A plausible slip: the columns are not filled, and the cell of an activity
\* without a value in the group stays NaN.
SummaryRowNotFilled(rows, key) ==
    LET cell(col, activity) ==
            IF \E i \in 1..Len(rows) :
                  /\ HasGroupKey(rows[i]) /\ "percentage" \in DOMAIN rows[i]
                  /\ GroupKey(rows[i]) = key /\ rows[i].activity = activity
            THEN (col :> MeanOrZero(rows, key, activity))
            ELSE <<>>
    IN  [ date |-> key[1], year |-> key[2], month |-> key[3], crop |-> key[4],
          state |-> key[5], harvest_season |-> key[6] ]
        @@ cell("planted_percentage", "Planting")
        @@ cell("harvested_percentage", "Harvest")
        @@ cell("commercialized_percentage", "Commercialization")

SummaryRow(rows, key) ==
    [ date |-> key[1], year |-> key[2], month |-> key[3], crop |-> key[4],
      state |-> key[5], harvest_season |-> key[6],
      planted_percentage |-> MeanOrZero(rows, key, "Planting"),
      harvested_percentage |-> MeanOrZero(rows, key, "Harvest"),
      commercialized_percentage |-> MeanOrZero(rows, key, "Commercialization") ]

\* The order of the summary: sort_values(['date', 'crop']), stable on the
\* pivot's index order (date, year, month, crop, state, harvest_season).
GroupKeyLT(a, b) ==
    \/ DateLT(a[1], b[1])
    \/ /\ a[1] = b[1]
       /\ \/ StrLT(a[4], b[4])
          \/ /\ a[4] = b[4]
             /\ \/ StrLT(a[5], b[5])
                \/ a[5] = b[5] /\ StrLT(a[6], b[6])

\* One step of sorting the index: key goes after the keys that precede it.
InsertKey(sorted, key) ==
    LET n == Cardinality({ i \in 1..Len(sorted) : GroupKeyLT(sorted[i], key) })
    IN  SubSeq(sorted, 1, n) \o <<key>> \o SubSeq(sorted, n + 1, Len(sorted))

RECURSIVE SortKeys(_)
SortKeys(keys) ==
    IF keys = {} THEN <<>>
    ELSE LET key == CHOOSE k \in keys : TRUE
         IN  InsertKey(SortKeys(keys \ {key}), key)

\* An empty df is returned as it is; a df without a column of the pivot
\* raises KeyError, and the except clause returns df (lines 553-555).
\* (The index is sorted once: keys ranges over the one sorted index.)
create_percentage_summary(rows) ==
    IF rows = <<>> THEN rows
    ELSE IF ~((PivotIndex \cup {"activity", "percentage"}) \subseteq Columns(rows))
    THEN rows
    ELSE CHOOSE pivot \in
            { [ n \in 1..Len(keys) |-> SummaryRow(rows, keys[n]) ] :
                keys \in { SortKeys({ GroupKey(rows[i]) :
                              i \in { j \in 1..Len(rows) : HasValue(rows[j]) } }) } } : TRUE

(***************************************************************************)
(* save_separated_files (lines 784-859), for a df that is not empty: run() *)
(* saves no empty frame.                                                   *)
(***************************************************************************)
crops == <<"Soy", "Corn", "Cotton">>

activities ==
    << [name |-> "Planting", percentage_col |-> "planted_percentage",
        file_suffix |-> "PLANTING"],
       [name |-> "Harvest", percentage_col |-> "harvested_percentage",
        file_suffix |-> "HARVEST"],
       [name |-> "Commercialization", percentage_col |-> "commercialized_percentage",
        file_suffix |-> "COMMERCIALIZATION"] >>

\* A plausible slip: the rows of a zero percentage are kept (>= 0).
IsReportedOrZero(row, percentage_col) ==
    percentage_col \in DOMAIN row /\ row[percentage_col].num >= 0

\* crop_data[percentage_col] > 0
IsReported(row, percentage_col) ==
    percentage_col \in DOMAIN row /\ row[percentage_col].num > 0

\* activity_data: the rows of df of a crop with a value > 0, in df's order
RECURSIVE ActivityData(_, _, _, _)
ActivityData(rows, crop, percentage_col, i) ==
    IF i > Len(rows) THEN <<>>
    ELSE (IF rows[i].crop = crop /\ IsReported(rows[i], percentage_col)
          THEN <<rows[i]>> ELSE <<>>)
         \o ActivityData(rows, crop, percentage_col, i + 1)

\* clean_data: the seven columns, the activity's column renamed
CleanRow(row, percentage_col) ==
    [ date |-> row.date, year |-> row.year, month |-> row.month,
      crop |-> row.crop, state |-> row.state,
      harvest_season |-> row.harvest_season,
      percentage |-> row[percentage_col] ]

\* sort_values('date'): the rows in ascending date; the default sort is not
\* stable, so the rows of one date come in any order.  The orders of the
\* rows idx: any row of the earliest date, then the others likewise.
RECURSIVE ByDate(_, _)
ByDate(rows, idx) ==
    IF idx = {} THEN { <<>> }
    ELSE UNION { { <<rows[i]>> \o rest : rest \in ByDate(rows, idx \ {i}) } :
                 i \in { j \in idx : \A k \in idx :
                                        DateLE(rows[j].date, rows[k].date) } }

SortValuesByDate(rows) == ByDate(rows, 1..Len(rows))

\* The files written from the k-th (crop, activity) pair of the loops on:
\* a pair whose activity_data is empty writes no file.
RECURSIVE SavedFrom(_, _)
SavedFrom(df_in, k) ==
    IF k > Len(crops) * Len(activities) THEN { <<>> }
    ELSE LET crop == crops[((k - 1) \div Len(activities)) + 1]
             activity == activities[((k - 1) % Len(activities)) + 1]
             col == activity.percentage_col
             activity_data == ActivityData(df_in, crop, col, 1)
             clean_data == [ i \in 1..Len(activity_data) |->
                               CleanRow(activity_data[i], col) ]
         IN  IF col \notin Columns(df_in) \/ activity_data = <<>>
             THEN SavedFrom(df_in, k + 1)
             ELSE { <<[ crop |-> crop, activity |-> activity.name,
                        file_suffix |-> activity.file_suffix, rows |-> sorted ]>>
                    \o rest :
                      sorted \in SortValuesByDate(clean_data),
                      rest \in SavedFrom(df_in, k + 1) }

\* What save_separated_files may do: the files it writes and what it
\* raises ("" when it returns). df['crop'] raises KeyError without the
\* column, and so do df['date'] and df['harvest_season'] of the final log
\* lines; every exception is raised again as ValueError (lines 858-859).
save_separated_files(df_in) ==
    IF "crop" \notin Columns(df_in)
    THEN { [raised |-> "ValueError: Failed to save separated files", files |-> <<>>] }
    ELSE { [ raised |-> IF {"date", "harvest_season"} \subseteq Columns(df_in)
                        THEN "" ELSE "ValueError: Failed to save separated files",
             files |-> files ] : files \in SavedFrom(df_in, 1) }

(***************************************************************************)
(* SpecShape: create_percentage_summary and save_separated_files on        *)
(* bounded frames of observations (the rows of final_df).                  *)
(***************************************************************************)
Observation(date, crop, activity, percentage, harvest_season) ==
    [ date |-> date, year |-> date.year, month |-> date.month,
      crop |-> crop, activity |-> activity, percentage |-> percentage,
      harvest_season |-> harvest_season, state |-> "Mato Grosso",
      data_source |-> "IMEA_API_INDICATORS" ]

\* An observation whose percentage is NaN (a Valor that is null or not a
\* number: pd.to_numeric(errors='coerce'), line 639).
WithoutValue(date, crop, activity, harvest_season) ==
    [ date |-> date, year |-> date.year, month |-> date.month,
      crop |-> crop, activity |-> activity,
      harvest_season |-> harvest_season, state |-> "Mato Grosso",
      data_source |-> "IMEA_API_INDICATORS" ]

\* An observation whose harvest_season is NaN (a record without
\* SafraDescricao among records that hold it, line 652).
WithoutSeason(date, crop, activity, percentage) ==
    [ date |-> date, year |-> date.year, month |-> date.month,
      crop |-> crop, activity |-> activity, percentage |-> percentage,
      state |-> "Mato Grosso", data_source |-> "IMEA_API_INDICATORS" ]

\* The observations SpecShape draws from: two dates, two crops, two
\* activities (no observation of Commercialization), the percentages 0 and
\* 40 of one season, and for soy planting on the first date a third
\* percentage, a second season and the NaN cells.
ShapeRows ==
    { Observation(d, c, a, v, "2023/24") :
        d \in {MkDate(FirstYear, 1, 31), MkDate(FirstYear, 2, 1)},
        c \in {"Soy", "Corn"}, a \in {"Planting", "Harvest"}, v \in {0, 40} }
    \cup
    { Observation(MkDate(FirstYear, 1, 31), "Soy", "Planting", 25, "2023/24"),
      Observation(MkDate(FirstYear, 1, 31), "Soy", "Planting", 40, "2022/23"),
      WithoutValue(MkDate(FirstYear, 1, 31), "Soy", "Planting", "2023/24"),
      WithoutValue(MkDate(FirstYear, 1, 31), "Soy", "Harvest", "2023/24"),
      WithoutSeason(MkDate(FirstYear, 1, 31), "Soy", "Planting", 40) }

InitShape ==
    /\ pc = "observed"
    /\ \E n \in 0..MaxObservations : observations \in [1..n -> ShapeRows]
    /\ summary = <<>>
    /\ saved_files = <<>>
    /\ run_outcome = ""
    /\ start_dt = MkDate(FirstYear, 1, 1) /\ end_dt = MkDate(FirstYear, 1, 1)
    /\ monthly_ranges = <<>>
    /\ all_requests = <<>>
    /\ all_data = <<>> /\ df = <<>> /\ df_again = <<>>
    /\ FetchIdle

\* percentage_summary = self.create_percentage_summary(historical_df)
ApplySummary ==
    /\ pc = "observed"
    /\ summary' = create_percentage_summary(observations)
    /\ pc' = "summarized"
    /\ UNCHANGED <<planVars, dedupVars, runVars, observations, saved_files, run_outcome>>

\* run(), lines 897-903: a summary that is not empty is saved, an empty one
\* raises ValueError.
ApplySave ==
    /\ pc = "summarized"
    /\ IF summary /= <<>>
       THEN \E saved \in save_separated_files(summary) :
               /\ saved_files' = saved.files
               /\ run_outcome' = IF saved.raised = "" THEN "returned" ELSE saved.raised
       ELSE /\ saved_files' = saved_files
            /\ run_outcome' = "ValueError: No percentage data extracted"
    /\ pc' = "saved"
    /\ UNCHANGED <<planVars, dedupVars, runVars, observations, summary>>

NextShape == ApplySummary \/ ApplySave

SpecShape == InitShape /\ [][NextShape]_vars

(***************************************************************************)
(* Spec: one run of extract(extract_historical=True, extract_prices=False).*)
(***************************************************************************)
\* self.indicators of the runs of the model: the first two soy indicators.
RunIndicators == SubSeq(indicators, 7, 8)

\* The (start_dt, end_dt) of the runs of the model: one month, two months
\* across a year end, and an end before the start's month (no range).
RunDates ==
    { <<MkDate(FirstYear, 1, 15), MkDate(FirstYear, 1, 20)>>,
      <<MkDate(FirstYear, 12, 31), MkDate(FirstYear + 1, 1, 10)>>,
      <<MkDate(FirstYear, 2, 10), MkDate(FirstYear, 1, 31)>> }

AuthFailed == [success |-> FALSE, error |-> "Authentication failed",
               percentage_summary |-> <<>>, detailed_data |-> <<>>]

NoResult == Failure("not run", [indicator_key |-> ""])

Init ==
    /\ pc = "start"
    /\ \E dates \in RunDates : start_dt = dates[1] /\ end_dt = dates[2]
    /\ max_workers \in 1..MaxWorkersBound
    /\ batch_size \in 1..MaxBatchBound
    /\ monthly_ranges = <<>>
    /\ all_requests = <<>>
    /\ all_data = <<>> /\ df = <<>> /\ df_again = <<>>
    /\ access_token = ""
    /\ season_ids = <<>>
    /\ http = [token |-> 0, seasons |-> 0, series |-> 0]
    /\ batch_start = 0
    /\ future = <<>>
    /\ response = <<>>
    /\ result_of = <<>>
    /\ batch_results = NoBatchResults
    /\ batch_log = <<>>
    /\ outcomes = <<>>
    /\ run_log = NoRunLog
    /\ results = NoResults
    /\ ShapeIdle

\* extract(): authenticate(), and the return when it fails (lines 733-739).
AuthenticateStep ==
    /\ pc = "start"
    /\ \E answer \in TokenAnswers :
          /\ access_token' = TokenAfter(access_token, answer)
          /\ http' = [http EXCEPT !.token = @ + 1]
          /\ IF Authenticate(answer)
             THEN pc' = "historical" /\ results' = results
             ELSE pc' = "returned" /\ results' = AuthFailed
    /\ UNCHANGED shapeVars
    /\ UNCHANGED <<planVars, dedupVars, season_ids, max_workers, batch_size,
                   poolVars, batchVars, run_log>>

\* The result extract() returns for the frame extract_historical_series
\* returned (lines 754-763 and 778-782); <<>> stands for None and for an
\* empty frame.
ExtractResults(historical_df) ==
    IF historical_df /= <<>>
    THEN [success |-> TRUE, error |-> "",
          percentage_summary |-> create_percentage_summary(historical_df),
          detailed_data |-> historical_df]
    ELSE [success |-> TRUE, error |-> "",
          percentage_summary |-> <<>>, detailed_data |-> <<>>]

\* extract_historical_series up to the batch loop (lines 263-343): the token
\* guard, fetch_harvest_seasons, the ranges and the worklist.
PlanStep ==
    /\ pc = "historical"
    /\ IF access_token = ""
       THEN /\ pc' = "returned"
            /\ results' = ExtractResults(<<>>)
            /\ UNCHANGED <<planVars, season_ids, http, poolVars, batch_start>>
       ELSE /\ \E seasons \in {<<>>, <<101, 102>>} : season_ids' = seasons
            /\ http' = [http EXCEPT !.seasons = @ + 1]
            /\ monthly_ranges' = generate_monthly_ranges(start_dt, end_dt)
            /\ all_requests' = BuildRequests(RunIndicators, monthly_ranges')
            /\ future' = [n \in 1..Len(all_requests') |-> "not submitted"]
            /\ response' = [n \in 1..Len(all_requests') |-> NoResponse]
            /\ result_of' = [n \in 1..Len(all_requests') |-> NoResult]
            /\ batch_start' = 0
            /\ pc' = "batches"
            /\ UNCHANGED <<start_dt, end_dt, results>>
    /\ UNCHANGED shapeVars
    /\ UNCHANGED <<dedupVars, access_token, max_workers, batch_size,
                   batch_results, batch_log, outcomes, run_log>>

total_requests == Len(all_requests)

\* A plausible slip: the slice of the batch ends one request early.
BatchEndShort(start) ==
    IF start + batch_size - 1 < total_requests
    THEN start + batch_size - 1 ELSE total_requests

\* batch_end = min(batch_start + batch_size, total_requests)
BatchEnd(start) ==
    IF start + batch_size < total_requests
    THEN start + batch_size ELSE total_requests

\* batch_requests = all_requests[batch_start:batch_end], as positions 1..N
BatchRequests(start) == (start + 1)..BatchEnd(start)

\* A plausible slip: the counters are created once, before the loop.
CountsCarriedOver(previous) == previous

\* batch_results = {'success': 0, 'failed': 0, ...} at every turn of the loop
CountsAtBatchStart(previous) == NoBatchResults

\* One turn of the batch loop: the executor is created and every request of
\* the batch is submitted (lines 441-453).
\* A plausible slip: the collected records are reset with the batch's counts.
DataResetAtBatchStart(collected) == <<>>

\* all_data = [] is set before the batch loop (line 430): a batch starts
\* with the records the earlier batches collected.
DataAtBatchStart(collected) == collected

BatchBegin ==
    /\ pc = "batches"
    /\ batch_start < total_requests
    /\ future' = [n \in 1..total_requests |->
                    IF n \in BatchRequests(batch_start) THEN "pending" ELSE future[n]]
    /\ batch_results' = CountsAtBatchStart(batch_results)
    /\ all_data' = DataAtBatchStart(all_data)
    /\ pc' = "collecting"
    /\ UNCHANGED shapeVars
    /\ UNCHANGED <<planVars, df, df_again, access_token, season_ids, http, max_workers,
                   batch_size, response, result_of, batch_start, batch_log, outcomes,
                   run_log, results>>

Running == { n \in 1..total_requests : future[n] = "running" }

\* A plausible slip: the pool starts a request whenever one is pending.
PoolHasIdleWorkerAlways == TRUE

\* A plausible slip: a worker is not released when its request has ended.
PoolWorkerNeverReleased ==
    Cardinality({ n \in 1..total_requests :
                    future[n] \in {"running", "finished", "read"} }) < max_workers

\* ThreadPoolExecutor(max_workers=max_workers): at most max_workers threads
PoolHasIdleWorker == Cardinality(Running) < max_workers

\* A worker thread takes the next request of the executor's queue (in the
\* order of submission) and sends it: make_request up to session.post.
WorkerStart(n) ==
    /\ pc = "collecting"
    /\ future[n] = "pending"
    /\ \A m \in 1..(n - 1) : future[m] /= "pending"
    /\ PoolHasIdleWorker
    /\ future' = [future EXCEPT ![n] = "running"]
    /\ http' = [http EXCEPT !.series = @ + 1]
    /\ UNCHANGED shapeVars
    /\ UNCHANGED <<pc, planVars, dedupVars, access_token, season_ids, max_workers,
                   batch_size, response, result_of, batchVars, run_log, results>>

\* The transport answers (or raises, or times out) with one of answers and
\* make_request returns.
WorkerAnswered(n, answers) ==
    /\ pc = "collecting"
    /\ future[n] = "running"
    /\ \E resp \in answers :
          /\ response' = [response EXCEPT ![n] = resp]
          /\ result_of' = [result_of EXCEPT ![n] = make_request(all_requests[n], resp)]
    /\ future' = [future EXCEPT ![n] = "finished"]
    /\ UNCHANGED shapeVars
    /\ UNCHANGED <<pc, planVars, dedupVars, access_token, season_ids, http, max_workers,
                   batch_size, batchVars, run_log, results>>

WorkerFinish(n) == WorkerAnswered(n, Answers(n))

\* A plausible slip: the limit is counted only when it is exceeded.
HitsLimitStrict(data_count) == data_count > RecordLimit

\* if data_count >= 10
HitsLimit(data_count) == data_count >= RecordLimit

\* A plausible slip: a failed request is logged but not counted.
CollectedFailureUncounted(counts, result) ==
    IF result.success
    THEN [counts EXCEPT !.success = @ + 1,
                        !.total_records = @ + result.record_count,
                        !.limit_hits = IF HitsLimit(result.record_count) THEN @ + 1 ELSE @]
    ELSE counts

\* The body of the as_completed loop for one result (lines 456-475).
CountResult(counts, result) ==
    IF result.success
    THEN [counts EXCEPT !.success = @ + 1,
                        !.total_records = @ + result.record_count,
                        !.limit_hits = IF HitsLimit(result.record_count) THEN @ + 1 ELSE @]
    ELSE [counts EXCEPT !.failed = @ + 1]

\* as_completed yields a finished future; its result is read and merged.
Collect(n) ==
    /\ pc = "collecting"
    /\ future[n] = "finished"
    /\ future' = [future EXCEPT ![n] = "read"]
    /\ outcomes' = Append(outcomes, n)
    /\ all_data' = IF result_of[n].success THEN all_data \o result_of[n].data ELSE all_data
    /\ batch_results' = CountResult(batch_results, result_of[n])
    /\ UNCHANGED shapeVars
    /\ UNCHANGED <<pc, planVars, df, df_again, access_token, season_ids, http,
                   max_workers, batch_size, response, result_of, batch_start,
                   batch_log, run_log, results>>

\* The end of a turn of the batch loop: every future of the batch was read,
\* the executor shuts down and the batch's counts are logged (477-479).
BatchDone ==
    /\ pc = "collecting"
    /\ \A n \in BatchRequests(batch_start) : future[n] = "read"
    /\ batch_log' = Append(batch_log,
           [ batch_num |-> (batch_start \div batch_size) + 1,
             requests |-> Cardinality(BatchRequests(batch_start)),
             success |-> batch_results.success,
             failed |-> batch_results.failed,
             total_records |-> batch_results.total_records,
             limit_hits |-> batch_results.limit_hits ])
    /\ batch_start' = batch_start + batch_size
    /\ pc' = "batches"
    /\ UNCHANGED shapeVars
    /\ UNCHANGED <<planVars, dedupVars, access_token, season_ids, http, max_workers,
                   batch_size, poolVars, batch_results, outcomes, run_log, results>>

\* After the batch loop (lines 481-505) and back in extract (754-782): the
\* deduplication, the transformation, the summary and the returned result.
Finish ==
    /\ pc = "batches"
    /\ batch_start >= total_requests
    /\ \E reconciled \in { Reconcile(all_data) } :
       \E returned \in { ExtractResults(reconciled.historical_df) } :
          /\ df' = reconciled.df
          /\ IF reconciled.raised /= ""
             THEN /\ pc' = "exited"
                  /\ run_outcome' = reconciled.raised
                  /\ results' = results
             ELSE /\ pc' = "returned"
                  /\ run_outcome' = run_outcome
                  /\ results' = returned
          /\ run_log' =
                [ total_requests |-> total_requests,
                  initial_count |-> IF all_data /= <<>> THEN Len(all_data) ELSE -1,
                  final_count |->
                      IF "Data" \in Columns(all_data) /\ reconciled.raised = ""
                      THEN Len(reconciled.df) ELSE -1,
                  summary_records |->
                      IF reconciled.historical_df /= <<>>
                      THEN Len(returned.percentage_summary) ELSE -1,
                  detailed_records |->
                      IF reconciled.historical_df /= <<>>
                      THEN Len(reconciled.historical_df) ELSE -1 ]
    /\ UNCHANGED <<observations, summary, saved_files>>
    /\ UNCHANGED <<planVars, all_data, df_again, access_token, season_ids, http,
                   max_workers, batch_size, poolVars, batchVars>>

\* A plausible slip: run() returns the empty frame instead of raising.
RunOutcomeEmptyReturned(returned, saved) ==
    IF ~returned.success THEN "ValueError: Extraction failed: Authentication failed"
    ELSE IF returned.percentage_summary = <<>> THEN "returned"
    ELSE IF saved.raised = "" THEN "returned" ELSE saved.raised

\* How run() ends (lines 897-909) for the result of extract() and what
\* save_separated_files did: it returns the summary, or raises ValueError
\* for a failed extraction, for an empty summary or for a failed save.
RunOutcome(returned, saved) ==
    IF ~returned.success THEN "ValueError: Extraction failed: Authentication failed"
    ELSE IF returned.percentage_summary = <<>>
    THEN "ValueError: No percentage data extracted"
    ELSE IF saved.raised = "" THEN "returned" ELSE saved.raised

NothingSaved == [raised |-> "", files |-> <<>>]

\* run() after extract() returned: the summary, when not empty, is saved.
RunEntry ==
    /\ pc = "returned"
    /\ \E saved \in IF results.success /\ results.percentage_summary /= <<>>
                    THEN save_separated_files(results.percentage_summary)
                    ELSE { NothingSaved } :
          /\ saved_files' = saved.files
          /\ run_outcome' = RunOutcome(results, saved)
    /\ pc' = "exited"
    /\ UNCHANGED <<planVars, dedupVars, runVars, observations, summary>>

Next ==
    \/ AuthenticateStep
    \/ PlanStep
    \/ BatchBegin
    \/ \E n \in 1..total_requests : WorkerStart(n)
    \/ \E n \in 1..total_requests : WorkerFinish(n)
    \/ \E n \in 1..total_requests : Collect(n)
    \/ BatchDone
    \/ Finish
    \/ RunEntry

Spec == Init /\ [][Next]_vars

\* The run with its scheduling, up to the end of the batch loop: the main
\* thread goes on when it can, an idle worker thread takes the next pending
\* request, and a request that was sent is answered or times out
\* (timeout=20, line 382).
SpecFair ==
    /\ Spec
    /\ WF_vars(AuthenticateStep)
    /\ WF_vars(PlanStep)
    /\ WF_vars(BatchBegin)
    /\ WF_vars(\E n \in 1..total_requests : WorkerStart(n))
    /\ WF_vars(\E n \in 1..total_requests : WorkerFinish(n))
    /\ WF_vars(\E n \in 1..total_requests : Collect(n))
    /\ WF_vars(BatchDone)

(***************************************************************************)
(* SpecUndated: the run with a provider whose records may hold no date.    *)
(***************************************************************************)
\* What the transport may answer to the n-th request: a timeout, two dated
\* records, or one or two records without date.
UndatedAnswers(n) ==
    { Raised("ReadTimeout"), Body("list", 2, "Percentual"),
      Undated("list", 1, "Percentual"), Undated("data", 2, "Percentual") }

WorkerFinishUndated(n) == WorkerAnswered(n, UndatedAnswers(n))

NextUndated ==
    \/ AuthenticateStep
    \/ PlanStep
    \/ BatchBegin
    \/ \E n \in 1..total_requests : WorkerStart(n)
    \/ \E n \in 1..total_requests : WorkerFinishUndated(n)
    \/ \E n \in 1..total_requests : Collect(n)
    \/ BatchDone
    \/ Finish
    \/ RunEntry

SpecUndated == Init /\ [][NextUndated]_vars

(***************************************************************************)
(* SpecPipeline: the run from the end of the batch loop on (Finish, then   *)
(* RunEntry), for collected records that lack keys of the provider's       *)
(* record: the reconciliation, the shaping and the saving of malformed     *)
(* input.                                                                  *)
(***************************************************************************)
\* The collected records SpecPipeline draws from: a soy planting and a soy
\* harvest record, whole or without its date, its value, its unit, its
\* season, or its date and unit, and a record of another unit.
PipelineRecords ==
    { Without(record, missing) :
        record \in { Collected(<<2023, 1, 31>>, 40, 51, "soy_planting", "Soy",
                               "Planting", <<2023, 1>>),
                     Collected(<<2023, 2, 1>>, 5, 51, "soy_harvest", "Soy",
                               "Harvest", <<2023, 2>>) },
        missing \in { {}, {"Data"}, {"Valor"}, {"UnidadeDescricao"},
                      {"SafraDescricao"}, {"Data", "UnidadeDescricao"} } }
    \cup
    { [ Collected(<<2023, 1, 31>>, 40, 51, "soy_planting", "Soy", "Planting",
                  <<2023, 1>>) EXCEPT !.UnidadeDescricao = "Hectares" ] }

InitPipeline ==
    /\ pc = "batches"
    /\ \E n \in 0..MaxRecords : all_data \in [1..n -> PipelineRecords]
    /\ df = <<>> /\ df_again = <<>>
    /\ start_dt = MkDate(FirstYear, 1, 1) /\ end_dt = MkDate(FirstYear, 1, 1)
    /\ monthly_ranges = <<>>
    /\ all_requests = <<>>
    /\ access_token = "tok"
    /\ season_ids = <<>>
    /\ http = [token |-> 1, seasons |-> 1, series |-> 0]
    /\ max_workers = 1
    /\ batch_size = 1
    /\ batch_start = 0
    /\ future = <<>>
    /\ response = <<>>
    /\ result_of = <<>>
    /\ batch_results = NoBatchResults
    /\ batch_log = <<>>
    /\ outcomes = <<>>
    /\ run_log = NoRunLog
    /\ results = NoResults
    /\ ShapeIdle

NextPipeline == Finish \/ RunEntry

SpecPipeline == InitPipeline /\ [][NextPipeline]_vars

(***************************************************************************)
(* Claims about the partitioner and the planner (under SpecRanges).        *)
(***************************************************************************)
RangesDone == pc \in {"ranged", "planned"}

\* The windows are ordered, contiguous and non-overlapping, none is longer
\* than a calendar month, and the last one ends at `end`.
WindowsTile(ranges, end) ==
    /\ Len(ranges) >= 1
    /\ ranges[Len(ranges)][2] = end
    /\ \A i \in 1..Len(ranges) :
          /\ DateLE(ranges[i][1], ranges[i][2])
          /\ ranges[i][1].year = ranges[i][2].year
          /\ ranges[i][1].month = ranges[i][2].month
    /\ \A i \in 1..(Len(ranges) - 1) : ranges[i + 1][1] = PlusOneDay(ranges[i][2])

\* C1 as stated: for start <= end the windows of generate_monthly_ranges are
\* ordered, contiguous, non-overlapping, at most a calendar month long, and
\* cover exactly [start, end]: the first starts at start, the last ends at end.
C1_CoverExactlyStartEnd ==
    (RangesDone /\ DateLE(start_dt, end_dt)) =>
        /\ WindowsTile(monthly_ranges, end_dt)
        /\ monthly_ranges[1][1] = start_dt

\* C1 as amended: for start <= end the windows are ordered, contiguous,
\* non-overlapping, at most a calendar month long, and cover exactly
\* [first day of start's month, end]: the first window starts on the first
\* day of the month of start (on start itself when start is a first of
\* month), and the last window ends at end.
C1_CoverFromFirstOfMonth ==
    (RangesDone /\ DateLE(start_dt, end_dt)) =>
        /\ WindowsTile(monthly_ranges, end_dt)
        /\ monthly_ranges[1][1] = FirstOfMonth(start_dt)
        /\ (start_dt.day = 1 => monthly_ranges[1][1] = start_dt)

\* A range that starts mid-month, is clipped mid-month and crosses a year end.
C1_Witness ==
    /\ pc = "ranged"
    /\ DateLT(start_dt, end_dt)
    /\ start_dt.day > 1
    /\ start_dt.year < end_dt.year
    /\ end_dt.day < DaysInMonth(end_dt.year, end_dt.month)
    /\ Len(monthly_ranges) = 3

\* C8: the worklist has exactly |indicators| x |windows| tasks, and every
\* (indicator, window) pair appears in it exactly once.
C8_WorklistIsCrossProduct ==
    pc = "planned" =>
        /\ Len(all_requests) = Len(indicators) * Len(monthly_ranges)
        /\ \A i \in 1..Len(indicators) : \A j \in 1..Len(monthly_ranges) :
              Cardinality({ n \in 1..Len(all_requests) :
                  /\ all_requests[n].indicator_key = indicators[i].key
                  /\ all_requests[n].indicator_id = indicators[i].id
                  /\ all_requests[n].start_date = StrfYmd(monthly_ranges[j][1])
                  /\ all_requests[n].end_date = StrfYmd(monthly_ranges[j][2]) }) = 1

\* A planned worklist over several windows.
C8_Witness ==
    /\ pc = "planned"
    /\ Len(monthly_ranges) >= 3
    /\ Len(all_requests) = Len(indicators) * Len(monthly_ranges)

(***************************************************************************)
(* Claims about the deduplication (under SpecDedup).                       *)
(***************************************************************************)
\* The positions of rows that hold the deduplication key k.
RowsWithKey(rows, k) == { n \in 1..Len(rows) : DedupKey(rows[n]) = k }

\* C9: given two collected observations with identical (date, indicator,
\* value) from tasks with different window labels, exactly one observation
\* with that (date, indicator, value) survives deduplication, and it is one
\* that was collected with the latest window label: of the two, the one with
\* the later label, unless a third with a still later label replaces both.
C9_LaterWindowSurvives ==
    pc = "deduped" =>
        LET frame == ToFrame(all_data)
        IN  \A i, j \in 1..Len(frame) :
                (/\ DedupKey(frame[i]) = DedupKey(frame[j])
                 /\ LabelLT(frame[i]["_month"], frame[j]["_month"]))
                =>
                /\ Cardinality(RowsWithKey(df, DedupKey(frame[i]))) = 1
                /\ \A n \in RowsWithKey(df, DedupKey(frame[i])) :
                      /\ df[n] /= frame[i]
                      /\ \E m \in RowsWithKey(frame, DedupKey(frame[i])) : frame[m] = df[n]
                      /\ \A m \in RowsWithKey(frame, DedupKey(frame[i])) :
                            ~LabelLT(df[n]["_month"], frame[m]["_month"])
                      /\ Cardinality(RowsWithKey(frame, DedupKey(frame[i]))) = 2
                            => df[n] = frame[j]

\* Two duplicates of one observation, the later window's collected first.
C9_Witness ==
    /\ pc = "deduped"
    /\ Len(all_data) = 3
    /\ DedupKey(ToFrame(all_data)[1]) = DedupKey(ToFrame(all_data)[2])
    /\ LabelLT(all_data[2]["_month"], all_data[1]["_month"])
    /\ all_data[1].EstadoId /= all_data[2].EstadoId
    /\ Len(df) = 2
    /\ \E n \in 1..2 : df[n] = ToFrame(all_data)[1]

\* C10: deduplication is idempotent: the sort-and-drop-duplicates step
\* applied to its own output yields the same record sequence.
C10_DedupIdempotent ==
    pc = "deduped twice" => df_again = df

\* A second application to an output in which a duplicate was dropped and
\* two rows share their sort key.
C10_Witness ==
    /\ pc = "deduped twice"
    /\ Len(all_data) = 3
    /\ Len(df) = 2
    /\ ~SortKeyLT(df[1], df[2])
    /\ ~SortKeyLT(df[2], df[1])
    /\ df[1] /= df[2]

(***************************************************************************)
(* Claims about a run (under Spec).                                        *)
(***************************************************************************)
Tasks == 1..total_requests

\* The fetch stage ran and extract() has returned.
RunReturned == pc = "returned" /\ access_token /= ""

Read == { n \in Tasks : future[n] = "read" }

SucceededIn(tasks) == { n \in tasks : future[n] = "read" /\ result_of[n].success }

FailedIn(tasks) == { n \in tasks : future[n] = "read" /\ ~result_of[n].success }

TruncatedIn(tasks) ==
    { n \in SucceededIn(tasks) : result_of[n].record_count >= RecordLimit }

\* The collected records that carry the tags of request n.
CollectedFrom(n) ==
    { i \in 1..Len(all_data) :
        /\ all_data[i]["_indicator_key"] = all_requests[n].indicator_key
        /\ all_data[i]["_month"] = all_requests[n].month_label }

\* Every record of every successful request that was read is in all_data,
\* once, and all_data holds nothing else.
SuccessfulRecordsCollected ==
    /\ \A n \in SucceededIn(Tasks) :
          /\ Cardinality(CollectedFrom(n)) = result_of[n].record_count
          /\ \A j \in 1..result_of[n].record_count :
                \E i \in CollectedFrom(n) : all_data[i] = result_of[n].data[j]
    /\ \A n \in Tasks \ SucceededIn(Tasks) : CollectedFrom(n) = {}

\* The requests of the b-th batch.
BatchOf(b) ==
    { n \in Tasks : n > (b - 1) * batch_size /\ n <= b * batch_size }

RECURSIVE SumLogged(_, _)
SumLogged(field, b) ==
    IF b = 0 THEN 0 ELSE batch_log[b][field] + SumLogged(field, b - 1)

\* C2: for a worklist of N requests the fetch stage produces exactly N
\* outcomes, one per submitted request and none twice, whatever max_workers
\* is and in whatever order the workers finish; each outcome is what
\* make_request gives for the request and the transport's answer to it.
C2_OneOutcomePerTask ==
    /\ \A n \in Tasks : Cardinality({ i \in 1..Len(outcomes) : outcomes[i] = n }) <= 1
    /\ RunReturned =>
          /\ Len(outcomes) = total_requests
          /\ \A n \in Tasks :
                /\ \E i \in 1..Len(outcomes) : outcomes[i] = n
                /\ response[n] \in Answers(n)
                /\ result_of[n] = make_request(all_requests[n], response[n])

\* Two workers, four requests in batches of two, read out of order, with
\* failures and successes.
C2_Witness ==
    /\ RunReturned
    /\ max_workers = 2 /\ batch_size = 2 /\ total_requests = 4
    /\ outcomes = <<2, 1, 4, 3>>
    /\ FailedIn(Tasks) = {2, 3}

\* The run does not stop before extract() returns: while a batch is being
\* collected a worker can start or finish, a result can be read or the batch
\* can end; between batches the next batch begins or the loop is over (and
\* Finish, then RunEntry, have no other guard).
RunContinues ==
    /\ pc = "collecting" =>
          \/ ENABLED (\E n \in Tasks : WorkerStart(n))
          \/ ENABLED (\E n \in Tasks : WorkerFinish(n))
          \/ ENABLED (\E n \in Tasks : Collect(n))
          \/ ENABLED BatchDone
    /\ pc = "batches" => (ENABLED BatchBegin \/ batch_start >= total_requests)
    /\ pc \in {"start", "historical", "batches", "collecting", "returned", "exited"}

\* The parts of C3 that need no amendment: a request whose transport raised
\* or whose status is not 200 is a Failure outcome, the run goes on, the
\* records of the successful requests are all collected, and the result is
\* not the authentication failure.
C3_FailuresAreData ==
    /\ \A n \in Tasks :
          (future[n] \in {"finished", "read"}
           /\ (response[n].raised /= "" \/ response[n].status /= HttpOk))
          => ~result_of[n].success
    /\ RunContinues
    /\ SuccessfulRecordsCollected
    /\ RunReturned =>
          /\ Read = Tasks
          /\ results.success
          /\ results /= AuthFailed
          /\ df = DedupStep(ToFrame(all_data))
          /\ results.detailed_data = transform_historical_data(df)

C4_NoFetchWithoutToken ==
    /\ (http.seasons > 0 \/ http.series > 0 \/ all_requests /= <<>>
        \/ pc \in {"batches", "collecting"})
       => access_token /= ""
    /\ (pc = "returned" /\ access_token = "") =>
          /\ results = AuthFailed
          /\ http = [token |-> 1, seasons |-> 0, series |-> 0]
          /\ outcomes = <<>>
    /\ (pc = "returned" /\ results.error = "Authentication failed") => access_token = ""
    /\ (pc = "returned" /\ access_token /= "") => results.success

\* The token endpoint answered and the run returned the failure.
C4_Witness ==
    /\ pc = "returned"
    /\ results = AuthFailed
    /\ access_token = ""
    /\ http.token = 1

\* What make_request reports for a response that is not a success.
ErrorOf(resp) ==
    IF resp.raised /= "" THEN resp.raised
    ELSE IF resp.status /= HttpOk THEN HttpError(resp.status)
    ELSE IF ~resp.parses THEN "JSONDecodeError"
    ELSE "TypeError"

Answered == { n \in Tasks : future[n] \in {"finished", "read"} }

\* C5 as stated: the outcome is Success whenever the status is 2xx and the
\* body parses, and Failure exactly when the status is not 2xx or the
\* transport raised; a Failure carries the status or the exception's
\* description and the originating request.
C5_SuccessOn2xx ==
    \A n \in Answered :
        LET resp == response[n]
            out  == result_of[n]
            non2xx == resp.raised /= "" \/ resp.status < 200 \/ resp.status >= 300
        IN  /\ (~non2xx /\ resp.parses) => out.success
            /\ ~out.success <=> non2xx
            /\ ~out.success =>
                  /\ out.error = ErrorOf(resp)
                  /\ out.request_info = all_requests[n]

\* C5 as amended: the outcome is Success exactly when the transport did not
\* raise, the status is 200, the body parses as JSON and its records are
\* objects; in every other case (a status other than 200, other 2xx
\* included; an exception or a timeout; a body that does not parse or whose
\* records cannot be tagged) it is Failure, carrying 'HTTP <status>' or the
\* exception's description, and the originating request.
C5_SuccessOn200 ==
    \A n \in Answered :
        LET resp == response[n]
            out  == result_of[n]
            ok   == /\ resp.raised = ""
                    /\ resp.status = HttpOk
                    /\ resp.parses
                    /\ (resp.objects \/ resp.count = 0)
        IN  /\ out.success <=> ok
            /\ out.success =>
                  /\ out.record_count = Len(out.data)
                  /\ out.record_count =
                        IF resp.shape \in {"list", "data"} THEN resp.count ELSE 0
            /\ ~out.success =>
                  /\ out.error = ErrorOf(resp)
                  /\ out.request_info = all_requests[n]

\* Answers of every kind: a timeout, a 500, a 204, a body that does not
\* parse, and a success.
C5_Witness ==
    /\ total_requests = 4
    /\ Answered = Tasks
    /\ response[1].status = 500
    /\ response[2].status = 204
    /\ response[3].status = HttpOk /\ ~response[3].parses
    /\ response[4].raised = "ReadTimeout"
    /\ result_of[2].error = "HTTP 204"

\* C6: a successful request is counted as a limit hit if and only if it
\* returned at least 10 records; it is still a success (counted as success,
\* never as failure) and all its records are in the collected record set.
C6_TruncatedIffAtLeastTen ==
    /\ pc = "collecting" =>
          LET batch == BatchRequests(batch_start)
          IN  /\ batch_results.limit_hits = Cardinality(TruncatedIn(batch))
              /\ batch_results.success = Cardinality(SucceededIn(batch))
              /\ batch_results.failed = Cardinality(FailedIn(batch))
    /\ \A b \in 1..Len(batch_log) :
          /\ batch_log[b].limit_hits = Cardinality(TruncatedIn(BatchOf(b)))
          /\ batch_log[b].success = Cardinality(SucceededIn(BatchOf(b)))
    /\ \A n \in TruncatedIn(Tasks) :
          /\ result_of[n].success
          /\ Cardinality(CollectedFrom(n)) = result_of[n].record_count
    /\ SuccessfulRecordsCollected

\* A batch with a request of exactly 10 records (a limit hit), one of 11 and,
\* in the next batch, one of a single record.
C6_Witness ==
    /\ RunReturned
    /\ total_requests = 4 /\ batch_size = 2
    /\ result_of[1].success /\ result_of[1].record_count = RecordLimit
    /\ result_of[2].success /\ result_of[2].record_count = RecordLimit + 1
    /\ result_of[3].success /\ result_of[3].record_count = 1
    /\ batch_log[1].limit_hits = 2
    /\ batch_log[2].limit_hits = 0
    /\ Len(all_data) >= 2 * RecordLimit + 2

\* The record counts the run logs (lines 481, 487, 498, 759); a count is
\* logged only when its frame is not empty.
RecordCountsLogged ==
    /\ run_log.total_requests = total_requests
    /\ Len(outcomes) = total_requests
    /\ all_data /= <<>> =>
          /\ run_log.initial_count = Len(all_data)
          /\ run_log.initial_count = SumLogged("total_records", Len(batch_log))
          /\ run_log.final_count = Len(df)
    /\ results.detailed_data /= <<>> =>
          /\ run_log.summary_records = Len(results.percentage_summary)
          /\ run_log.detailed_records = Len(results.detailed_data)

Summarized == pc \in {"summarized", "saved"}

\* The rows of the summary whose group key is k
SummaryRowsOf(k) == { n \in 1..Len(summary) : GroupKey(summary[n]) = k }

\* C11, as stated: every group key that occurs in the observations passed
\* to create_percentage_summary appears in the summary in exactly one row.
C11_EveryGroupOnce ==
    Summarized =>
        \A i \in 1..Len(observations) :
            HasGroupKey(observations[i]) =>
                Cardinality(SummaryRowsOf(GroupKey(observations[i]))) = 1

\* C11, amended: every group key whose six fields are all present and for
\* which some observation holds a percentage appears in the summary in
\* exactly one row; the summary has no other row, so a group whose
\* percentages are all NaN is absent; and no key appears in two rows.
C11_EveryValuedGroupOnce ==
    Summarized =>
        /\ \A i \in 1..Len(observations) :
              (/\ PivotIndex \subseteq DOMAIN observations[i]
               /\ "percentage" \in DOMAIN observations[i])
              => Cardinality(SummaryRowsOf(GroupKey(observations[i]))) = 1
        /\ \A n \in 1..Len(summary) :
              \E i \in 1..Len(observations) :
                  /\ PivotIndex \subseteq DOMAIN observations[i]
                  /\ "percentage" \in DOMAIN observations[i]
                  /\ GroupKey(observations[i]) = GroupKey(summary[n])
        /\ \A n \in 1..Len(summary) : SummaryRowsOf(GroupKey(summary[n])) = {n}

\* Two observations of one group and an observation without value of
\* another group: the summary is the one row of the first group.
C11_Witness ==
    /\ pc = "summarized"
    /\ Len(observations) = 3
    /\ Len(summary) = 1
    /\ \A i \in 1..3 : PivotIndex \subseteq DOMAIN observations[i]
    /\ "percentage" \in DOMAIN observations[1]
    /\ "percentage" \in DOMAIN observations[3]
    /\ "percentage" \notin DOMAIN observations[2]
    /\ GroupKey(observations[1]) = GroupKey(observations[3])
    /\ observations[1].activity /= observations[3].activity
    /\ GroupKey(observations[2]) /= GroupKey(observations[1])

\* The observations of a group and an activity that hold a percentage
ValuesOf(k, activity) ==
    { i \in 1..Len(observations) :
        /\ PivotIndex \subseteq DOMAIN observations[i]
        /\ "percentage" \in DOMAIN observations[i]
        /\ GroupKey(observations[i]) = k
        /\ observations[i].activity = activity }

ActivityColumns ==
    { <<"planted_percentage", "Planting">>,
      <<"harvested_percentage", "Harvest">>,
      <<"commercialized_percentage", "Commercialization">> }

\* C12: in every summary row each of the three activity columns has a
\* value, and the value is 0.0 when the group has no observation of the
\* activity, also when the activity is absent from the whole input.
C12_ActivityColumnsFilled ==
    Summarized =>
        \A n \in 1..Len(summary) : \A ca \in ActivityColumns :
            /\ ca[1] \in DOMAIN summary[n]
            /\ summary[n][ca[1]].den > 0
            /\ ValuesOf(GroupKey(summary[n]), ca[2]) = {}
                  => summary[n][ca[1]] = [num |-> 0, den |-> 1]

\* A row with a planted percentage and no harvest, next to a row of another
\* group with a harvest; no row has an observation of Commercialization.
C12_Witness ==
    /\ pc = "summarized"
    /\ Len(summary) = 2
    /\ summary[1].planted_percentage.num > 0
    /\ summary[1].harvested_percentage = Zero
    /\ summary[2].harvested_percentage.num > 0
    /\ summary[1].commercialized_percentage = Zero
    /\ \A i \in 1..Len(observations) : observations[i].activity /= "Commercialization"

\* The rows a (crop, activity) subset is to hold: the rows of the crop with
\* a percentage > 0 in the activity's column, with that column as percentage
SubsetRows(crop, col) ==
    { [ date |-> summary[n].date, year |-> summary[n].year,
        month |-> summary[n].month, crop |-> summary[n].crop,
        state |-> summary[n].state,
        harvest_season |-> summary[n].harvest_season,
        percentage |-> summary[n][col] ] :
        n \in { m \in 1..Len(summary) :
                  summary[m].crop = crop /\ summary[m][col].num > 0 } }

FilesOf(crop, activity) ==
    { f \in 1..Len(saved_files) :
        saved_files[f].crop = crop /\ saved_files[f].activity = activity }

\* C13: for each (crop, activity) pair the emitted subset holds exactly the
\* summary rows of the crop with a percentage > 0 for the activity, in
\* ascending date; a pair without such a row emits nothing, so no emitted
\* subset is empty.
C13_SubsetsPositiveSortedNonEmpty ==
    (pc = "saved" /\ summary /= <<>>) =>
        /\ \A c \in 1..Len(crops) : \A a \in 1..Len(activities) :
              LET rows == SubsetRows(crops[c], activities[a].percentage_col)
                  files == FilesOf(crops[c], activities[a].name)
              IN  IF rows = {} THEN files = {}
                  ELSE /\ Cardinality(files) = 1
                       /\ \A f \in files :
                             /\ { saved_files[f].rows[i] :
                                    i \in 1..Len(saved_files[f].rows) } = rows
                             /\ Len(saved_files[f].rows) = Cardinality(rows)
                             /\ \A i \in 1..Len(saved_files[f].rows) :
                                \A j \in 1..Len(saved_files[f].rows) :
                                    i < j => DateLE(saved_files[f].rows[i].date,
                                                    saved_files[f].rows[j].date)
        /\ \A f \in 1..Len(saved_files) :
              /\ saved_files[f].rows /= <<>>
              /\ \E c \in 1..Len(crops) : \E a \in 1..Len(activities) :
                    f \in FilesOf(crops[c], activities[a].name)

\* Two files: the soy planting subset with rows of two dates and a corn
\* subset, while soy has a row of percentage 0 in a column, left out.
C13_Witness ==
    /\ pc = "saved"
    /\ Len(summary) = 3
    /\ Len(saved_files) = 2
    /\ saved_files[1].crop = "Soy" /\ saved_files[1].activity = "Planting"
    /\ Len(saved_files[1].rows) = 2
    /\ saved_files[1].rows[1].date /= saved_files[1].rows[2].date
    /\ saved_files[2].crop = "Corn"
    /\ \E n \in 1..Len(summary) :
          summary[n].crop = "Corn" /\ summary[n].planted_percentage = Zero

(***************************************************************************)
(* Claims about the outcome of a run (under Spec).                         *)
(***************************************************************************)
\* extract() went through the fetch stage and extract_historical_series
\* returned None or an empty frame.
EmptyRun ==
    /\ pc \in {"returned", "exited"}
    /\ access_token /= ""
    /\ results /= NoResults
    /\ transform_historical_data(df) = <<>>

EmptyResult == [success |-> TRUE, error |-> "",
                percentage_summary |-> <<>>, detailed_data |-> <<>>]

\* The parts of C14 that need no amendment: extract() returns the empty
\* run as a value of its own, which is neither the authentication failure
\* nor a result with data.
C14_EmptyResultIsAValue ==
    /\ EmptyRun => (results = EmptyResult /\ results /= AuthFailed)
    /\ (pc \in {"returned", "exited"} /\ access_token /= "" /\ ~EmptyRun) =>
          (results.success /\ results.detailed_data /= <<>>)
    /\ (pc \in {"returned", "exited"} /\ access_token = "") => results = AuthFailed

\* C14, as stated: a run that yields zero records after reconciliation
\* reports a distinguishable EmptyResult value and raises no exception.
C14_EmptyResultNoException ==
    /\ C14_EmptyResultIsAValue
    /\ (EmptyRun /\ pc = "exited") => run_outcome = "returned"

\* C14, amended: extract() reports the empty run as a value (success with
\* two empty tables), and run() then raises ValueError('No percentage data
\* extracted') and saves nothing; the error differs from the one of a
\* failed authentication, and a run with a summary does not raise it.
C14_EmptyResultValueThenValueError ==
    /\ C14_EmptyResultIsAValue
    /\ pc = "exited" =>
          /\ EmptyRun =>
                /\ run_outcome = "ValueError: No percentage data extracted"
                /\ saved_files = <<>>
          /\ access_token = "" =>
                run_outcome = "ValueError: Extraction failed: Authentication failed"
          /\ (access_token /= "" /\ results.percentage_summary /= <<>>) =>
                run_outcome = "returned"

\* A run of two requests that both fail, and a run whose only record is not
\* a percentage: both have ended.
C14_Witness ==
    /\ pc = "exited"
    /\ EmptyRun
    /\ total_requests = 2
    /\ \/ FailedIn(Tasks) = Tasks
       \/ all_data /= <<>>
    /\ results = EmptyResult

(***************************************************************************)
(* Claims about the worker pool (under Spec and SpecFair).                 *)
(***************************************************************************)
\* The requests that were sent and are not answered yet
InFlight == { n \in 1..Len(future) : future[n] = "running" }

\* C15: at every moment of a run the number of requests in flight is at
\* most the size of the worker pool, for every worklist and batch size.
C15_InFlightAtMostPoolSize ==
    /\ Cardinality(InFlight) <= max_workers
    /\ http.series
         - Cardinality({ n \in 1..Len(future) : future[n] \in {"finished", "read"} })
       <= max_workers

\* A batch of two requests on a pool of one worker: one request is in
\* flight and the other waits for the worker.
C15_Witness ==
    /\ pc = "collecting"
    /\ max_workers = 1 /\ batch_size = 2
    /\ Cardinality(InFlight) = 1
    /\ \E n \in 1..Len(future) : future[n] = "pending"

\* The batch loop is over (or was never entered, without a token): every
\* request of the worklist was submitted and its outcome was read.
AllBatchesFinished ==
    /\ \/ pc \in {"returned", "exited"}
       \/ pc = "batches" /\ batch_start >= total_requests
    /\ { outcomes[i] : i \in 1..Len(outcomes) } = 1..total_requests
    /\ \A n \in 1..total_requests : future[n] = "read"

\* C16: a request that times out becomes a Failure outcome and does not
\* block the pool: every request that has ended in a timeout has a Failure
\* as its result, and the run eventually finishes all batches, with the
\* outcome of every submitted request read by the collecting loop.
C16_TimeoutsDoNotBlock ==
    /\ [](\A n \in 1..Len(future) :
            (future[n] \in {"finished", "read"} /\ response[n].raised = "ReadTimeout")
            => (~result_of[n].success /\ result_of[n].error = "ReadTimeout"))
    /\ <>AllBatchesFinished

\* A run on a pool of one worker has ended after its first request timed
\* out and the later ones were answered.
C16_Witness ==
    /\ pc = "exited"
    /\ max_workers = 1 /\ total_requests = 4
    /\ response[1].raised = "ReadTimeout"
    /\ ~result_of[1].success
    /\ \E n \in 2..4 : result_of[n].success
    /\ Len(outcomes) = 4

(***************************************************************************)
(* Claims about the chunks of the batch loop (under Spec, SpecUndated).    *)
(***************************************************************************)
\* The records of the successful requests n..total_requests, in the order
\* of the worklist: what the requests and their answers determine, whatever
\* the batches and the order of completion.
RECURSIVE RecordsInWorklistOrder(_)
RecordsInWorklistOrder(n) ==
    IF n > total_requests THEN <<>>
    ELSE (IF make_request(all_requests[n], response[n]).success
          THEN make_request(all_requests[n], response[n]).data ELSE <<>>)
         \o RecordsInWorklistOrder(n + 1)

CountIn(rows, r) == Cardinality({ i \in 1..Len(rows) : rows[i] = r })

SameMultiset(a, b) ==
    /\ Len(a) = Len(b)
    /\ \A i \in 1..Len(a) : CountIn(a, a[i]) = CountIn(b, a[i])

\* C17: the chunks have no effect on the result: in every run, whatever its
\* batch size, the outcome of a request is what its answer determines, the
\* collected records are as a multiset the records of the successful
\* requests, and the deduplicated table is the one obtained from these
\* records in worklist order; none depends on the batch size.
C17_BatchSizeHasNoEffect ==
    (pc \in {"returned", "exited"} /\ access_token /= "") =>
        \E expected \in { RecordsInWorklistOrder(1) } :
            /\ \A n \in 1..total_requests :
                  result_of[n] = make_request(all_requests[n], response[n])
            /\ SameMultiset(all_data, expected)
            /\ df = Reconcile(expected).df
            /\ results.detailed_data = Reconcile(expected).historical_df

\* A run of four requests in two batches of two in which each batch
\* completed in reverse order: the records were collected in another order
\* than the worklist's, and three or more rows are left after deduplication.
C17_Witness ==
    /\ pc = "returned"
    /\ total_requests = 4 /\ batch_size = 2
    /\ outcomes = <<2, 1, 4, 3>>
    /\ all_data /= RecordsInWorklistOrder(1)
    /\ Len(df) >= 3

(***************************************************************************)
(* Claims about malformed records (under SpecPipeline).                    *)
(***************************************************************************)
ProviderKeys == { "Data", "Valor", "EstadoId", "SafraDescricao", "UnidadeDescricao" }

\* Some collected record lacks a key of the provider's record
Malformed == \E i \in 1..Len(all_data) : ~(ProviderKeys \subseteq DOMAIN all_data[i])

\* C18: when a reconciliation or shaping step meets malformed input (such
\* as records without a date), it returns a table and the run (extract,
\* summarize, save) does not abort with an exception; the ValueError of a
\* run without any percentage data is not counted as an abort here.
C18_MalformedInputDoesNotAbort ==
    (pc = "exited" /\ Malformed) =>
        run_outcome \in {"returned", "ValueError: No percentage data extracted"}

\* The rows of the deduplicated frame whose reported unit is 'Percentual'
PercentageRows ==
    { i \in 1..Len(df) :
        "UnidadeDescricao" \in DOMAIN df[i] /\ df[i].UnidadeDescricao = "Percentual" }

\* C19: after reconciliation only the observations whose reported unit is
\* the percentage unit are retained: the table handed to the shaper has no
\* more rows than the deduplicated frame has rows of that unit, and without
\* such a row the table and the summary are empty.
C19_OnlyPercentageUnitRetained ==
    (pc \in {"returned", "exited"} /\ results.success) =>
        /\ Len(results.detailed_data) = Cardinality(PercentageRows)
        /\ PercentageRows = {} => results.percentage_summary = <<>>

(***************************************************************************)
(* A further claim about the partitioner (under SpecRanges).               *)
(***************************************************************************)
\* C20: the partitioner emits no window whose start is after its end, for
\* every pair of overall start and end, also when the start is after the
\* end and when the end is the first day of a month.
C20_NoWindowStartsAfterItsEnd ==
    RangesDone =>
        \A i \in 1..Len(monthly_ranges) :
            ~DateLT(monthly_ranges[i][2], monthly_ranges[i][1])

\* An end on the first day of a month: the last window is that one day.
\* (With a start after the end in the same month, one window is emitted
\* too, from the first of the month to the end.)
C20_Witness ==
    /\ pc = "ranged"
    /\ end_dt.day = 1
    /\ DateLT(start_dt, end_dt)
    /\ Len(monthly_ranges) = 2
    /\ monthly_ranges[2] = <<end_dt, end_dt>>

(***************************************************************************)
(* Claims about the order of completion (under SpecUndated).               *)
(***************************************************************************)
\* The request a collected record came from: one request per indicator and
\* window, whose key and label make_request wrote into the record.
TaskOf(record) == <<record["_indicator_key"], record["_month"]>>

\* all_data.extend(result['data']): the records a request added to data,
\* in the order of its response.
BlockOf(data, task) == SelectSeq(data, LAMBDA record : TaskOf(record) = task)

\* The blocks of data, those of the requests in tasks, in every order.
RECURSIVE BlocksInEveryOrder(_, _)
BlocksInEveryOrder(data, tasks) ==
    IF tasks = {} THEN { <<>> }
    ELSE UNION { { BlockOf(data, task) \o rest :
                     rest \in BlocksInEveryOrder(data, tasks \ {task}) } :
                 task \in tasks }

\* The turn of the batch loop that submits the request of a record.
BatchNumberOf(record) ==
    LET n == CHOOSE m \in 1..total_requests :
                 TaskOf(record) = <<all_requests[m].indicator_key,
                                    all_requests[m].month_label>>
    IN  (n - 1) \div batch_size

\* What all_data can be at the end of the batch loop for the requests, the
\* responses and the batch size of this run: as_completed yields the
\* requests of a batch in the order they complete, and a batch is collected
\* before the next one is submitted.
CompletionOrders(data) ==
    { other \in BlocksInEveryOrder(data, { TaskOf(data[i]) : i \in 1..Len(data) }) :
        \A i \in 1..Len(other) : \A j \in i..Len(other) :
            BatchNumberOf(other[i]) <= BatchNumberOf(other[j]) }

\* C21: for a fixed worklist and fixed responses, the deduplicated frame
\* handed to the transformation (which records are left, and in which
\* order) and the table made of it are the same for every order in which
\* the requests complete: every order in which the requests of this run
\* can complete gives the frame and the table this run got.
C21_SameForEveryCompletionOrder ==
    (pc \in {"returned", "exited"} /\ access_token /= "") =>
        \A other \in CompletionOrders(all_data) :
            \E reconciled \in { Reconcile(other) } :
                /\ reconciled.df = df
                /\ reconciled.historical_df = results.detailed_data

\* The same for the runs in which some collected record holds a date: the
\* frame is then sorted before the duplicates are dropped.
C21_SameForEveryCompletionOrderWhenDated ==
    (pc \in {"returned", "exited"} /\ access_token /= ""
        /\ "Data" \in Columns(all_data)) =>
        \A other \in CompletionOrders(all_data) :
            \E reconciled \in { Reconcile(other) } :
                /\ reconciled.df = df
                /\ reconciled.historical_df = results.detailed_data

\* Dated and undated records of four requests were collected in another
\* order than the worklist's: the frame handed on is not in the order of
\* collection.
C21_DatedOutOfOrder ==
    /\ pc = "returned"
    /\ total_requests = 4 /\ batch_size = 2
    /\ outcomes = <<2, 1, 4, 3>>
    /\ "Data" \in Columns(all_data)
    /\ \E i \in 1..Len(all_data) : "Data" \notin DOMAIN all_data[i]
    /\ Cardinality(CompletionOrders(all_data)) = 4
    /\ df /= ToFrame(all_data)

(***************************************************************************)
(* A further claim about the deduplication (under SpecDedup).              *)
(***************************************************************************)
\* The group of the summary a record belongs to: its date, crop, state and
\* harvest season.
ObservationOf(row) == <<row.Data, row["_crop"], row.EstadoId, row.SafraDescricao>>

\* The rows of a frame that are of the observation of row
RowsOfObservation(rows, row) ==
    { n \in 1..Len(rows) : ObservationOf(rows[n]) = ObservationOf(row) }

\* C22: the deduplication discards no distinct observation: of two collected
\* records that differ in state or in harvest season neither is dropped for
\* the other, also when they share date, indicator and value, so every
\* (date, crop, state, season) present in the collected records is present
\* in the deduplicated frame.
C22_EveryObservationSurvives ==
    pc = "deduped" =>
        \E frame \in { ToFrame(all_data) } :
            \A i \in 1..Len(frame) : RowsOfObservation(df, frame[i]) /= {}

\* What the deduplication does keep: every (date, indicator, value) of the
\* collected records, once.
C22_EveryKeySurvivesOnce ==
    pc = "deduped" =>
        \E frame \in { ToFrame(all_data) } :
            \A i \in 1..Len(frame) : Cardinality(RowsWithKey(df, DedupKey(frame[i]))) = 1

\* Two records of one date, indicator and value and of two states, or of
\* two seasons, were collected and one row is left.
C22_StatesOrSeasonsCollapsed ==
    /\ pc = "deduped"
    /\ Len(all_data) = 2 /\ Len(df) = 1
    /\ \/ all_data[1].EstadoId /= all_data[2].EstadoId
       \/ all_data[1].SafraDescricao /= all_data[2].SafraDescricao

====
